---- MODULE Spec2Model ----
(***************************************************************************)
(* Background Remover API: the POST /api/remove-bg request pipeline        *)
(* (app/routers/remove_bg.py), the validator and the normalizer            *)
(* (app/services/bg_service.py) and the settings (app/config.py).          *)
(*                                                                         *)
(* A filename is a sequence of characters, each character a string naming  *)
(* it ("a", ".", "U+0130").  An upload's bytes are described by their      *)
(* length and by what Pillow finds in them.  A double is a 53-bit mantissa *)
(* (a sequence of bits, most significant first) and a binary exponent.     *)
(***************************************************************************)
EXTENDS Integers, Sequences, FiniteSets, TLC

VARIABLES settings, library, req

vars == <<settings, library, req>>

(***************************************************************************)
(* Bounds of the model.                                                    *)
(***************************************************************************)
NumRequests == 2
MaxStemLen == 2
SizeSlack == 1
WidthSlack == 1
MaxSmallHeight == 3

(***************************************************************************)
(* app/config.py                                                           *)
(***************************************************************************)
MAX_FILE_SIZE_MB == 5
MAX_FILE_SIZE_BYTES == MAX_FILE_SIZE_MB * 1024 * 1024
MAX_IMAGE_WIDTH == 1024
ALLOWED_EXTENSIONS == { <<".", "j", "p", "g">>,
                        <<".", "j", "p", "e", "g">>,
                        <<".", "p", "n", "g">> }

Settings == [ MAX_FILE_SIZE_MB    |-> MAX_FILE_SIZE_MB,
              MAX_FILE_SIZE_BYTES |-> MAX_FILE_SIZE_BYTES,
              MAX_IMAGE_WIDTH     |-> MAX_IMAGE_WIDTH,
              ALLOWED_EXTENSIONS  |-> ALLOWED_EXTENSIONS ]

(***************************************************************************)
(* Python str operations used by the validator and the router.             *)
(***************************************************************************)
Max(a, b) == IF a >= b THEN a ELSE b
Min(a, b) == IF a <= b THEN a ELSE b

\* str.lower() of one character: the full Unicode lower-case mapping.
\* U+0130 (capital I with dot above) lower-cases to the two code points
\* "i" U+0307; U+0424 (Cyrillic capital EF) to U+0444.
LowerChar(c) ==
    CASE c = "A" -> <<"a">>
      [] c = "J" -> <<"j">>
      [] c = "P" -> <<"p">>
      [] c = "E" -> <<"e">>
      [] c = "N" -> <<"n">>
      [] c = "G" -> <<"g">>
      [] c = "U+0130" -> <<"i", "U+0307">>
      [] c = "U+0424" -> <<"U+0444">>
      [] OTHER -> <<c>>

RECURSIVE lower(_)
lower(s) == IF s = <<>> THEN <<>> ELSE LowerChar(Head(s)) \o lower(Tail(s))

\* Mutant of rfind: a missing separator reported as index 0.
rfind_or_zero(s, c) ==
    LET hits == { i \in 1..Len(s) : s[i] = c }
    IN  IF hits = {} THEN 0
        ELSE (CHOOSE i \in hits : \A j \in hits : j <= i) - 1

\* str.rfind('.'): the highest 0-based index of '.', or -1.
rfind(s, c) ==
    LET hits == { i \in 1..Len(s) : s[i] = c }
    IN  IF hits = {} THEN -1
        ELSE (CHOOSE i \in hits : \A j \in hits : j <= i) - 1

\* s[i:] with Python's treatment of a negative or too large start.
SliceFrom(s, i) ==
    LET n     == Len(s)
        start == IF i < 0 THEN Max(n + i, 0) ELSE Min(i, n)
    IN  SubSeq(s, start + 1, n)

\* s[:i] for 0 <= i <= len(s).
SliceTo(s, i) == SubSeq(s, 1, i)

\* filename.rsplit('.', 1)[0]
rsplit_head(s) == IF rfind(s, ".") = -1 THEN s ELSE SliceTo(s, rfind(s, "."))

\* Characters outside latin-1 cannot be encoded into a response header.
NonLatin1 == { "U+0130", "U+0307", "U+0424", "U+0444" }
Latin1Encodable(s) == \A i \in 1..Len(s) : s[i] \notin NonLatin1

(***************************************************************************)
(* BackgroundRemovalService.validate_image                                 *)
(***************************************************************************)
\* f"{file_size_mb:.2f}" as hundredths of a MB: len / (1024 * 1024) is exact
\* in a double, and the formatting rounds the exact value half to even.
FormatMB2(len) ==
    LET unit == 1024 * 1024
        q    == (len * 100) \div unit
        rem  == (len * 100) % unit
    IN  IF 2 * rem > unit \/ (2 * rem = unit /\ q % 2 = 1) THEN q + 1 ELSE q

\* filename.lower()[filename.rfind('.'):]
file_extension(filename) == SliceFrom(lower(filename), rfind(filename, "."))

\* Mutant of TooLarge: the limit itself rejected.
TooLargeInclusive(image_bytes, cfg) == image_bytes.size >= cfg.MAX_FILE_SIZE_BYTES

\* len(image_bytes) > settings.MAX_FILE_SIZE_BYTES
TooLarge(image_bytes, cfg) == image_bytes.size > cfg.MAX_FILE_SIZE_BYTES

\* file_extension not in settings.ALLOWED_EXTENSIONS
BadExtension(filename, cfg) == file_extension(filename) \notin cfg.ALLOWED_EXTENSIONS

\* Image.open(BytesIO(image_bytes)); image.verify() raises
Undecodable(image_bytes) == image_bytes.kind # "image"

\* A message: its kind, its fixed leading text, and the values formatted
\* into it.
NoReason == [kind |-> "", text |-> "", limit_mb |-> 0, got |-> 0, allowed |-> {},
             error |-> ""]

\* Mutant of validate_image: the extension check made before the size check.
validate_image_extension_first(image_bytes, filename, cfg) ==
    IF BadExtension(filename, cfg)
    THEN [is_valid |-> FALSE, checks |-> <<"extension">>,
          file_extension |-> file_extension(filename),
          error_message |-> [NoReason EXCEPT !.kind = "extension",
                                !.text = "Invalid file type. Allowed types: ",
                                !.allowed = cfg.ALLOWED_EXTENSIONS]]
    ELSE IF TooLarge(image_bytes, cfg)
    THEN [is_valid |-> FALSE, checks |-> <<"extension", "size">>,
          file_extension |-> file_extension(filename),
          error_message |-> [NoReason EXCEPT !.kind = "size",
                                !.text = "File too large. Maximum size is ",
                                !.limit_mb = cfg.MAX_FILE_SIZE_MB,
                                !.got = FormatMB2(image_bytes.size)]]
    ELSE IF Undecodable(image_bytes)
    THEN [is_valid |-> FALSE, checks |-> <<"extension", "size", "decode">>,
          file_extension |-> file_extension(filename),
          error_message |-> [NoReason EXCEPT !.kind = "decode",
                                !.text = "Invalid or corrupted image file: ",
                                !.error = "cannot identify image file"]]
    ELSE [is_valid |-> TRUE, checks |-> <<"extension", "size", "decode">>,
          file_extension |-> file_extension(filename),
          error_message |-> NoReason]

\* The result of validate_image: (is_valid, error_message), with the checks
\* the call evaluated, in the order it evaluated them, and the value of its
\* local file_extension (empty while unassigned).
validate_image(image_bytes, filename, cfg) ==
    IF TooLarge(image_bytes, cfg)
    THEN [is_valid |-> FALSE, checks |-> <<"size">>, file_extension |-> <<>>,
          error_message |-> [NoReason EXCEPT !.kind = "size",
                                !.text = "File too large. Maximum size is ",
                                !.limit_mb = cfg.MAX_FILE_SIZE_MB,
                                !.got = FormatMB2(image_bytes.size)]]
    ELSE IF BadExtension(filename, cfg)
    THEN [is_valid |-> FALSE, checks |-> <<"size", "extension">>,
          file_extension |-> file_extension(filename),
          error_message |-> [NoReason EXCEPT !.kind = "extension",
                                !.text = "Invalid file type. Allowed types: ",
                                !.allowed = cfg.ALLOWED_EXTENSIONS]]
    ELSE IF Undecodable(image_bytes)
    THEN [is_valid |-> FALSE, checks |-> <<"size", "extension", "decode">>,
          file_extension |-> file_extension(filename),
          error_message |-> [NoReason EXCEPT !.kind = "decode",
                                !.text = "Invalid or corrupted image file: ",
                                !.error = "cannot identify image file"]]
    ELSE [is_valid |-> TRUE, checks |-> <<"size", "extension", "decode">>,
          file_extension |-> file_extension(filename),
          error_message |-> NoReason]

(***************************************************************************)
(* IEEE 754 binary64 arithmetic, as CPython performs it in                 *)
(*     ratio = settings.MAX_IMAGE_WIDTH / input_image.width                *)
(*     new_height = int(input_image.height * ratio)                        *)
(* A double is [m |-> bits, e |-> k]: the integer written by the 53 bits   *)
(* of m, most significant first, times 2^k.                                *)
(***************************************************************************)
MantissaBits == 53

\* An intermediate result is named by binding it in a singleton set,
\* { F(x) : x \in {e} }, whose only element CHOOSE then takes: e is evaluated
\* once, whatever the number of uses of x in F(x).

\* Long division and multiplication work on limbs of LimbBits bits.
LimbBits == 13

RECURSIVE Pow2(_)
Pow2(n) == IF n = 0 THEN 1 ELSE 2 * Pow2(n - 1)

LimbBase == Pow2(LimbBits)

RECURSIVE ToBits(_)
ToBits(n) == IF n = 0 THEN <<>> ELSE Append(ToBits(n \div 2), n % 2)

\* The integer written by the first n bits.
RECURSIVE BitsValue(_, _)
BitsValue(bits, n) == IF n = 0 THEN 0 ELSE 2 * BitsValue(bits, n - 1) + bits[n]

BitsToInt(bits) == BitsValue(bits, Len(bits))

FixedBits(n, w) == [k \in 1..w |-> (n \div Pow2(w - k)) % 2]

StripLeadingZeros(bits) ==
    LET ones == { i \in 1..Len(bits) : bits[i] = 1 }
    IN  IF ones = {} THEN <<>>
        ELSE SubSeq(bits, CHOOSE i \in ones : \A k \in ones : i <= k, Len(bits))

\* bits + 1, one bit longer when every bit was set.
Increment(bits) ==
    LET zeros == { i \in 1..Len(bits) : bits[i] = 0 }
    IN  IF zeros = {} THEN <<1>> \o [i \in 1..Len(bits) |-> 0]
        ELSE LET j == CHOOSE i \in zeros : \A k \in zeros : k <= i
             IN  [i \in 1..Len(bits) |-> IF i < j THEN bits[i] ELSE IF i = j THEN 1 ELSE 0]

\* Scale a / b into [1, 2): <<a', b', e>> with a / b = (a' / b') * 2^e.
RECURSIVE Normalise(_, _, _)
Normalise(a, b, e) ==
    IF a < b THEN Normalise(2 * a, b, e - 1)
    ELSE IF a >= 2 * b THEN Normalise(a, 2 * b, e + 1)
    ELSE <<a, b, e>>

\* n limbs of the binary expansion of r / b (r < b), followed by the
\* remainder left after them.
RECURSIVE QuotientLimbs(_, _, _)
QuotientLimbs(r, b, n) ==
    IF n = 0 THEN <<r>>
    ELSE CHOOSE y \in { <<x \div b>> \o QuotientLimbs(x % b, b, n - 1) :
                            x \in {r * LimbBase} } : TRUE

\* Round to nearest, ties to even: the kept bits, whether the first dropped
\* bit is set, whether anything below it is.
RoundNearestEven(kept, half, sticky, e) ==
    IF half /\ (sticky \/ kept[Len(kept)] = 1)
    THEN CHOOSE y \in { IF Len(up) > Len(kept)
                        THEN [m |-> SubSeq(up, 1, Len(kept)), e |-> e + 1]
                        ELSE [m |-> up, e |-> e] :
                            up \in {Increment(kept)} } : TRUE
    ELSE [m |-> kept, e |-> e]

\* int / int (true division) of positive integers, correctly rounded: the
\* leading 1 and (MantissaBits - 1) fraction bits, then the rounding.
FloatDiv(a, b) ==
    LET k == (MantissaBits - 1) \div LimbBits
        Fraction(q) == [i \in 1..(k * LimbBits) |->
                           FixedBits(q[((i - 1) \div LimbBits) + 1], LimbBits)
                               [((i - 1) % LimbBits) + 1]]
        Rounded(n, q) ==
            CHOOSE y \in
                { RoundNearestEven(kept, 2 * q[k + 1] >= n[2], 2 * q[k + 1] > n[2],
                                   n[3] - (MantissaBits - 1)) :
                      kept \in {<<1>> \o Fraction(q)} } : TRUE
        Divided(n) ==
            CHOOSE y \in { Rounded(n, q) :
                               q \in {QuotientLimbs(n[1] - n[2], n[2], k)} } : TRUE
    IN  CHOOSE y \in { Divided(n) : n \in {Normalise(a, b, 0)} } : TRUE

\* The limbs of a mantissa, least significant first.
SplitLimbs(bits) ==
    LET n == (Len(bits) + LimbBits - 1) \div LimbBits
    IN  [j \in 1..n |-> BitsToInt(SubSeq(bits, Max(Len(bits) - LimbBits * j + 1, 1),
                                          Len(bits) - LimbBits * (j - 1)))]

\* The bits of h * (the integer written by the limbs), for a small integer h.
RECURSIVE MulLimbs(_, _, _, _)
MulLimbs(limbs, h, j, carry) ==
    IF j > Len(limbs) THEN ToBits(carry)
    ELSE CHOOSE y \in { MulLimbs(limbs, h, j + 1, v \div LimbBase)
                            \o FixedBits(v % LimbBase, LimbBits) :
                            v \in {limbs[j] * h + carry} } : TRUE

\* int * float for a positive integer h: the exact product, rounded once.
FloatMulInt(h, x) ==
    LET Rounded(p) ==
            IF Len(p) <= MantissaBits THEN [m |-> p, e |-> x.e]
            ELSE RoundNearestEven(SubSeq(p, 1, MantissaBits),
                                  p[MantissaBits + 1] = 1,
                                  \E i \in (MantissaBits + 2)..Len(p) : p[i] = 1,
                                  x.e + Len(p) - MantissaBits)
        Stripped(product) ==
            CHOOSE y \in { Rounded(p) : p \in {StripLeadingZeros(product)} } : TRUE
        Multiplied(limbs) ==
            CHOOSE y \in { Stripped(product) :
                               product \in {MulLimbs(limbs, h, 1, 0)} } : TRUE
    IN  CHOOSE y \in { Multiplied(limbs) : limbs \in {SplitLimbs(x.m)} } : TRUE

\* int(x) for a non-negative double: truncation.
FloatToInt(x) ==
    IF x.e >= 0 THEN BitsToInt(x.m) * Pow2(x.e)
    ELSE IF -x.e >= Len(x.m) THEN 0
    ELSE BitsToInt(SubSeq(x.m, 1, Len(x.m) + x.e))

\* ratio = MAX_IMAGE_WIDTH / width; new_height = int(height * ratio)
new_height(width, height, cfg) ==
    LET Scaled(ratio) ==
            CHOOSE y \in { FloatToInt(product) :
                               product \in {FloatMulInt(height, ratio)} } : TRUE
    IN  CHOOSE y \in { Scaled(ratio) :
                           ratio \in {FloatDiv(cfg.MAX_IMAGE_WIDTH, width)} } : TRUE

(***************************************************************************)
(* Values of a request.                                                    *)
(***************************************************************************)
Stages == <<"Received", "Validated", "Normalized", "Segmented", "Encoded", "Responded">>

NoValidation == [is_valid |-> FALSE, checks |-> <<>>, file_extension |-> <<>>,
                 error_message |-> NoReason]
NoBytes  == [size |-> -1, kind |-> "none", width |-> 0, height |-> 0, truncated |-> FALSE]
NoBitmap == [exists |-> FALSE, width |-> 0, height |-> 0, loaded |-> FALSE, alpha |-> FALSE]
NoBody   == [png |-> FALSE, width |-> 0, height |-> 0, alpha |-> FALSE]
NoResponse == [status |-> 0, detail |-> NoReason, body |-> NoBody,
               media_type |-> "", disposition |-> <<>>]

\* The handler's locals after "image_bytes = await file.read()".
NewRequest(u) ==
    [ pc         |-> "Received",
      upload     |-> u,
      validation |-> NoValidation,
      passed     |-> NoBytes,
      bitmap     |-> NoBitmap,
      output     |-> NoBody,
      collab     |-> <<>>,
      trace      |-> <<"Received">>,
      response   |-> NoResponse ]

(***************************************************************************)
(* The handler's try / except (routers/remove_bg.py).                      *)
(***************************************************************************)
HTTPException(status_code, detail) ==
    [type |-> "HTTPException", status_code |-> status_code, detail |-> detail]

\* Any other exception; error is str(e).
Raised(error) ==
    [type |-> "Exception", status_code |-> 0,
     detail |-> [NoReason EXCEPT !.error = error]]

\* Mutant of ExceptionResponse: the catch-all clause placed first.
ExceptionResponseCatchAll(e) ==
    [NoResponse EXCEPT !.status = 500,
        !.detail = [NoReason EXCEPT !.kind = "processing",
                       !.text = "Error processing image: ",
                       !.error = e.detail.error]]

\* except HTTPException: raise
\* except Exception as e: raise HTTPException(500, f"Error processing image: {str(e)}")
ExceptionResponse(e) ==
    IF e.type = "HTTPException"
    THEN [NoResponse EXCEPT !.status = e.status_code, !.detail = e.detail]
    ELSE [NoResponse EXCEPT !.status = 500,
             !.detail = [NoReason EXCEPT !.kind = "processing",
                            !.text = "Error processing image: ",
                            !.error = e.detail.error]]

\* Mutant of Fail: the handler starts over instead of answering.
FailAndRetry(q, e) == [q EXCEPT !.pc = "Received", !.trace = Append(@, "Received")]

\* The request ends in Error with the response the handler builds for e.
Fail(q, e) ==
    [q EXCEPT !.pc = "Error", !.trace = Append(@, "Error"),
              !.response = ExceptionResponse(e)]

Advance(q, stage) == [q EXCEPT !.pc = stage, !.trace = Append(@, stage)]

(***************************************************************************)
(* Steps of one request.                                                   *)
(***************************************************************************)
\* Mutant of Validate: the result of the validation ignored.
ValidateUnchecked(r) ==
    /\ req[r].pc = "Received"
    /\ LET v == validate_image(req[r].upload.image_bytes, req[r].upload.filename, settings)
       IN  req' = [req EXCEPT ![r] = Advance([req[r] EXCEPT !.validation = v], "Validated")]
    /\ UNCHANGED <<settings, library>>

\* is_valid, error_message = bg_service.validate_image(image_bytes, file.filename)
\* if not is_valid: raise HTTPException(status_code=400, detail=error_message)
Validate(r) ==
    /\ req[r].pc = "Received"
    /\ LET v == validate_image(req[r].upload.image_bytes, req[r].upload.filename, settings)
           q == [req[r] EXCEPT !.validation = v]
       IN  req' = [req EXCEPT ![r] =
                      IF v.is_valid THEN Advance(q, "Validated")
                      ELSE Fail(q, HTTPException(400, v.error_message))]
    /\ UNCHANGED <<settings, library>>

\* The bitmap after Image.open and the conditional resize, or the exception.
\* new_height is computed before the call of resize, which loads the pixel
\* data first, then rejects an empty target size when the installed Pillow
\* does; a failed load leaves new_height unused.
Normalizer(image_bytes, cfg, lib) ==
    IF image_bytes.kind # "image"
    THEN [ok |-> FALSE, error |-> "cannot identify image file", bitmap |-> NoBitmap]
    ELSE IF image_bytes.width > cfg.MAX_IMAGE_WIDTH
    THEN IF image_bytes.truncated
         THEN [ok |-> FALSE, error |-> "image file is truncated", bitmap |-> NoBitmap]
         ELSE CHOOSE y \in
                { IF h < 1 /\ lib.resize_rejects_empty
                  THEN [ok |-> FALSE, error |-> "height and width must be > 0",
                        bitmap |-> NoBitmap]
                  ELSE [ok |-> TRUE, error |-> "",
                        bitmap |-> [exists |-> TRUE, width |-> cfg.MAX_IMAGE_WIDTH,
                                    height |-> h, loaded |-> TRUE, alpha |-> FALSE]] :
                      h \in {new_height(image_bytes.width, image_bytes.height, cfg)} } : TRUE
    ELSE [ok |-> TRUE, error |-> "",
          bitmap |-> [exists |-> TRUE, width |-> image_bytes.width,
                      height |-> image_bytes.height, loaded |-> FALSE, alpha |-> FALSE]]

\* Mutant of Normalize: the width of the last image kept in the settings.
NormalizeWritingSettings(r) ==
    /\ req[r].pc = "Validated"
    /\ LET n == Normalizer(req[r].upload.image_bytes, settings, library)
           q == [req[r] EXCEPT !.passed = req[r].upload.image_bytes]
       IN  /\ req' = [req EXCEPT ![r] =
                        IF n.ok THEN Advance([q EXCEPT !.bitmap = n.bitmap], "Normalized")
                        ELSE Fail(q, Raised(n.error))]
           /\ settings' = [settings EXCEPT !.MAX_IMAGE_WIDTH =
                              IF n.ok THEN n.bitmap.width ELSE @]
    /\ UNCHANGED library

\* output_bytes = bg_service.remove_background(image_bytes), steps 1 and 2
Normalize(r) ==
    /\ req[r].pc = "Validated"
    /\ LET n == Normalizer(req[r].upload.image_bytes, settings, library)
           q == [req[r] EXCEPT !.passed = req[r].upload.image_bytes]
       IN  req' = [req EXCEPT ![r] =
                      IF n.ok THEN Advance([q EXCEPT !.bitmap = n.bitmap], "Normalized")
                      ELSE Fail(q, Raised(n.error))]
    /\ UNCHANGED <<settings, library>>

\* output_image = remove(input_image): the collaborator returns a bitmap with
\* an alpha channel or fails; it reads the pixel data if nothing has yet.
Segment(r) ==
    /\ req[r].pc = "Normalized"
    /\ \E ok \in BOOLEAN :
          LET q == [req[r] EXCEPT !.collab = Append(@, <<"remove", ok>>)]
          IN  req' = [req EXCEPT ![r] =
                 IF ~q.bitmap.loaded /\ q.upload.image_bytes.truncated
                 THEN Fail(req[r], Raised("image file is truncated"))
                 ELSE IF ok
                 THEN Advance([q EXCEPT !.bitmap.loaded = TRUE, !.bitmap.alpha = TRUE],
                              "Segmented")
                 ELSE Fail(q, Raised("segmentation failed"))]
    /\ UNCHANGED <<settings, library>>

\* Mutant of Encode: a failed save answered with what the buffer holds.
EncodePartial(r) ==
    /\ req[r].pc = "Segmented"
    /\ \E ok \in BOOLEAN :
          LET q == [req[r] EXCEPT !.collab = Append(@, <<"save", ok>>)]
          IN  req' = [req EXCEPT ![r] =
                 Advance([q EXCEPT !.output =
                             [png |-> TRUE, width |-> q.bitmap.width,
                              height |-> q.bitmap.height, alpha |-> q.bitmap.alpha]],
                         "Encoded")]
    /\ UNCHANGED <<settings, library>>

\* output_image.save(output_buffer, format="PNG"); return output_buffer.getvalue()
Encode(r) ==
    /\ req[r].pc = "Segmented"
    /\ \E ok \in BOOLEAN :
          LET q == [req[r] EXCEPT !.collab = Append(@, <<"save", ok>>)]
          IN  req' = [req EXCEPT ![r] =
                 IF ok
                 THEN Advance([q EXCEPT !.output =
                                   [png |-> TRUE, width |-> q.bitmap.width,
                                    height |-> q.bitmap.height, alpha |-> q.bitmap.alpha]],
                              "Encoded")
                 ELSE Fail(q, Raised("cannot write PNG"))]
    /\ UNCHANGED <<settings, library>>

\* f"attachment; filename=no_bg_{file.filename.rsplit('.', 1)[0]}.png"
ContentDisposition(filename) ==
    <<"attachment; filename=no_bg_">> \o rsplit_head(filename) \o <<".png">>

\* return StreamingResponse(BytesIO(output_bytes), media_type="image/png", headers=...)
\* The response encodes its headers as latin-1 when it is constructed.
Respond(r) ==
    /\ req[r].pc = "Encoded"
    /\ LET d == ContentDisposition(req[r].upload.filename)
       IN  req' = [req EXCEPT ![r] =
                      IF Latin1Encodable(d)
                      THEN [Advance(req[r], "Responded") EXCEPT !.response =
                               [NoResponse EXCEPT !.status = 200, !.body = req[r].output,
                                   !.media_type = "image/png", !.disposition = d]]
                      ELSE Fail(req[r], Raised("'latin-1' codec can't encode character"))]
    /\ UNCHANGED <<settings, library>>

Handle(r) == Validate(r) \/ Normalize(r) \/ Segment(r) \/ Encode(r) \/ Respond(r)

Next ==
    \/ \E r \in DOMAIN req : Validate(r)
    \/ \E r \in DOMAIN req : Normalize(r)
    \/ \E r \in DOMAIN req : Segment(r)
    \/ \E r \in DOMAIN req : Encode(r)
    \/ \E r \in DOMAIN req : Respond(r)

(***************************************************************************)
(* Uploads.                                                                *)
(***************************************************************************)
Image(w, h, t) == [kind |-> "image", width |-> w, height |-> h, truncated |-> t]
Garbage == [kind |-> "garbage", width |-> 0, height |-> 0, truncated |-> FALSE]
Bytes(size, content) ==
    [size |-> size, kind |-> content.kind, width |-> content.width,
     height |-> content.height, truncated |-> content.truncated]
Upload(filename, image_bytes) == [filename |-> filename, image_bytes |-> image_bytes]

\* Pillow is not pinned: a resize to an empty size raises ValueError in the
\* releases that reject it and returns an empty bitmap in the others.
Libraries == [resize_rejects_empty : BOOLEAN]

SeqsUpTo(S, n) == UNION { [1..k -> S] : k \in 0..n }

StemChars == {"a", "A", ".", "U+0130", "U+0444"}
Extensions == { <<>>, <<".", "p", "n", "g">>, <<".", "P", "N", "G">>,
                <<".", "j", "p", "g">>, <<".", "j", "p", "e", "g">>,
                <<".", "J", "p", "e", "g">>, <<".", "g", "i", "f">>,
                <<"p", "n", "g">> }
Filenames == { stem \o ext : stem \in SeqsUpTo(StemChars, MaxStemLen), ext \in Extensions }

a_png == <<"a", ".", "p", "n", "g">>
a_jpg == <<"a", ".", "j", "p", "g">>

\* Concurrent requests: one upload for every outcome of the pipeline.
CoreUploads ==
    { Upload(a_png, Bytes(1000, Image(800, 600, FALSE))),
      Upload(<<"a", ".", "g", "i", "f">>, Bytes(1000, Image(800, 600, FALSE))),
      Upload(a_png, Bytes(MAX_FILE_SIZE_BYTES + 1, Image(800, 600, FALSE))),
      Upload(a_png, Bytes(1000, Garbage)),
      Upload(a_png, Bytes(1000, Image(2048, 1, FALSE))),
      Upload(<<"U+0444", ".", "p", "n", "g">>, Bytes(1000, Image(800, 600, FALSE))),
      Upload(a_jpg, Bytes(1000, Image(2000, 1000, TRUE))),
      Upload(a_jpg, Bytes(1000, Image(800, 600, TRUE))) }

\* Termination: an upload that is answered, one rejected, one the resize
\* fails on, one whose response cannot be built.
FairUploads ==
    { Upload(a_png, Bytes(1000, Image(800, 600, FALSE))),
      Upload(<<"a", ".", "g", "i", "f">>, Bytes(1000, Image(800, 600, FALSE))),
      Upload(a_jpg, Bytes(1000, Image(2000, 1000, TRUE))),
      Upload(<<"U+0444", ".", "p", "n", "g">>, Bytes(1000, Image(800, 600, FALSE))) }

\* The validator: every filename, lengths around the limit.
Sizes == {0, MAX_FILE_SIZE_BYTES + 131072}
            \cup ((MAX_FILE_SIZE_BYTES - SizeSlack)..(MAX_FILE_SIZE_BYTES + SizeSlack))
ValidatorUploads ==
    { Upload(f, Bytes(n, c)) :
        f \in Filenames, n \in Sizes \ {0}, c \in {Garbage, Image(800, 600, FALSE)} }
    \cup { Upload(f, Bytes(0, Garbage)) : f \in Filenames }

\* The normalizer: widths around the limit and above it.
Widths == {1, 800, 1568, 1712, 2000, 2048, 4096}
            \cup ((MAX_IMAGE_WIDTH - WidthSlack)..(MAX_IMAGE_WIDTH + WidthSlack))
Heights == (1..MaxSmallHeight) \cup {49, 107, 600, 1000}
NormalizerUploads ==
    { Upload(a_png, Bytes(1000, Image(w, h, t))) :
        w \in Widths, h \in Heights, t \in BOOLEAN }

(***************************************************************************)
(* Specifications.                                                         *)
(***************************************************************************)
InitWith(n, uploads) ==
    /\ settings = Settings
    /\ library \in Libraries
    /\ req \in [1..n -> { NewRequest(u) : u \in uploads }]

Init == InitWith(NumRequests, CoreUploads)
Spec == Init /\ [][Next]_vars

\* Every handler that has been started runs until it returns or raises.
FairInit == InitWith(NumRequests, FairUploads)
FairSpec ==
    FairInit /\ [][Next]_vars /\ \A r \in 1..NumRequests : WF_vars(Handle(r))

ValidatorInit == InitWith(1, ValidatorUploads)
ValidatorSpec == ValidatorInit /\ [][Next]_vars

NormalizerInit == InitWith(1, NormalizerUploads)
NormalizerSpec == NormalizerInit /\ [][Next]_vars

(***************************************************************************)
(* Properties.                                                             *)
(***************************************************************************)
Requests == DOMAIN req
Terminal(r) == req[r].pc \in {"Responded", "Error"}
ValidatorRan(r) == req[r].validation.checks # <<>>
NormalizerRan(r) == req[r].passed # NoBytes
Visited(r, stage) == \E i \in 1..Len(req[r].trace) : req[r].trace[i] = stage
IsPrefix(s, t) == Len(s) <= Len(t) /\ SubSeq(t, 1, Len(s)) = s
HasDot(filename) == \E i \in 1..Len(filename) : filename[i] = "."

\* C1: remove_background (Normalizer, Segmentation, Encoder) runs on an
\* upload only after validate_image returned valid for the same bytes in the
\* same request; an upload found Invalid reaches neither the Normalizer nor
\* the segmentation collaborator.
C1_ProcessedOnlyIfValid ==
    \A r \in Requests :
        /\ (NormalizerRan(r) \/ req[r].bitmap.exists \/ req[r].collab # <<>>
              \/ req[r].output # NoBody)
             => /\ ValidatorRan(r)
                /\ req[r].validation.is_valid
                /\ req[r].passed = req[r].upload.image_bytes
                /\ ~TooLarge(req[r].passed, settings)
                /\ req[r].passed.kind = "image"
        /\ (ValidatorRan(r) /\ ~req[r].validation.is_valid)
             => /\ ~NormalizerRan(r)
                /\ ~req[r].bitmap.exists
                /\ req[r].collab = <<>>
                /\ ~Visited(r, "Normalized")

C1_Witness ==
    \E r, q \in Requests :
        /\ req[r].pc = "Segmented" /\ req[r].validation.is_valid /\ NormalizerRan(r)
        /\ req[q].pc = "Error" /\ ValidatorRan(q) /\ ~req[q].validation.is_valid

\* C2: whenever the Validator returns Invalid with a reason, the request ends
\* with HTTP 400 whose detail is exactly that reason; the catch-all handler
\* neither turns it into a 500 nor alters the reason.
C2_InvalidIs400WithReason ==
    \A r \in Requests :
        (ValidatorRan(r) /\ ~req[r].validation.is_valid)
            => /\ req[r].pc = "Error"
               /\ req[r].response.status = 400
               /\ req[r].response.detail.kind \in {"size", "extension", "decode"}
               /\ req[r].response.detail = req[r].validation.error_message
               /\ req[r].response.body = NoBody

C2_Witness ==
    \E r, q \in Requests :
        /\ ValidatorRan(r) /\ req[r].response.status = 400
        /\ req[r].response.detail.kind = "extension"
        /\ ValidatorRan(q) /\ req[q].response.status = 400
        /\ req[q].response.detail.kind = "decode"

\* C3: for a validated upload, a failure in the Normalizer, the Segmentation
\* or the Encoder ends the request with HTTP 500 and the detail "Error
\* processing image: <description>", the same shape whichever stage failed,
\* and a response carries PNG body bytes only when all three stages completed.
FailedIn(r) ==
    IF req[r].pc # "Error" THEN "none"
    ELSE req[r].trace[Len(req[r].trace) - 1]

C3_StageFailureIs500 ==
    \A r \in Requests :
        /\ (req[r].validation.is_valid /\ FailedIn(r) \in {"Validated", "Normalized", "Segmented"})
              => /\ req[r].response.status = 500
                 /\ req[r].response.detail.kind = "processing"
                 /\ req[r].response.detail =
                        [NoReason EXCEPT !.kind = "processing",
                            !.text = "Error processing image: ",
                            !.error = req[r].response.detail.error]
                 /\ req[r].response.detail.error # ""
                 /\ req[r].response.body = NoBody
        /\ req[r].response.body # NoBody
              => /\ req[r].response.status = 200
                 /\ req[r].response.body = req[r].output
                 /\ IsPrefix(<<"Received", "Validated", "Normalized", "Segmented", "Encoded">>,
                             req[r].trace)
                 /\ req[r].collab = << <<"remove", TRUE>>, <<"save", TRUE>> >>

C3_Witness ==
    \E r, q \in Requests :
        /\ req[r].validation.is_valid /\ FailedIn(r) = "Validated"
        /\ req[r].response.status = 500
        /\ req[q].validation.is_valid /\ FailedIn(q) = "Segmented"
        /\ req[q].response.status = 500

\* C4: validate_image applies the checks in the order size, extension,
\* decodability and stops at the first failure: the reason is that of the
\* first failing check, later checks are not evaluated, and the result is
\* (true, "") exactly when all three checks pass.
C4_ChecksInOrder ==
    \A r \in Requests :
        ValidatorRan(r) =>
            LET v   == req[r].validation
                big == req[r].upload.image_bytes.size > settings.MAX_FILE_SIZE_BYTES
                ext == file_extension(req[r].upload.filename) \notin settings.ALLOWED_EXTENSIONS
                und == req[r].upload.image_bytes.kind # "image"
            IN  /\ v.is_valid <=> (~big /\ ~ext /\ ~und)
                /\ v.is_valid => v.error_message = NoReason
                /\ big => v.error_message.kind = "size" /\ v.checks = <<"size">>
                /\ (~big /\ ext) => /\ v.error_message.kind = "extension"
                                    /\ v.checks = <<"size", "extension">>
                /\ (~big /\ ~ext /\ und) => /\ v.error_message.kind = "decode"
                                            /\ v.checks = <<"size", "extension", "decode">>
                /\ (~big /\ ~ext /\ ~und) => v.checks = <<"size", "extension", "decode">>

C4_Witness ==
    \E r \in Requests :
        /\ ValidatorRan(r)
        /\ req[r].upload.image_bytes.size > settings.MAX_FILE_SIZE_BYTES
        /\ file_extension(req[r].upload.filename) \notin settings.ALLOWED_EXTENSIONS
        /\ req[r].upload.image_bytes.kind # "image"
        /\ req[r].validation.error_message.kind = "size"

\* C5: the Validator returns Invalid with a size-related reason exactly when
\* the byte length exceeds max_file_size_mb * 1024 * 1024; an upload of
\* exactly that many bytes is not rejected for size.
C5_SizeReasonIff ==
    \A r \in Requests :
        ValidatorRan(r) =>
            /\ settings.MAX_FILE_SIZE_BYTES = settings.MAX_FILE_SIZE_MB * 1024 * 1024
            /\ (~req[r].validation.is_valid /\ req[r].validation.error_message.kind = "size")
                 <=> req[r].upload.image_bytes.size > settings.MAX_FILE_SIZE_MB * 1024 * 1024

C5_Witness ==
    \E r \in Requests :
        /\ ValidatorRan(r)
        /\ req[r].upload.image_bytes.size = settings.MAX_FILE_SIZE_MB * 1024 * 1024
        /\ req[r].validation.is_valid

\* The lower-cased suffix of a filename from its last '.' to the end; no
\* suffix at all when the filename holds no '.'.
SuffixFromLastDot(filename) ==
    IF ~HasDot(filename) THEN <<>>
    ELSE lower(SubSeq(filename, rfind(filename, ".") + 1, Len(filename)))

\* C6: the Validator returns Invalid with an extension-related reason exactly
\* when the lower-cased suffix of the filename from its last '.' to the end
\* is not in {.jpg, .jpeg, .png}; a filename with no '.' is always rejected on
\* this check.  Stated for the uploads that pass the size check, which the
\* order of the checks puts first.
C6_ExtensionReasonIff ==
    \A r \in Requests :
        (ValidatorRan(r) /\ req[r].upload.image_bytes.size <= settings.MAX_FILE_SIZE_BYTES)
            => ((~req[r].validation.is_valid
                    /\ req[r].validation.error_message.kind = "extension")
                 <=> SuffixFromLastDot(req[r].upload.filename) \notin ALLOWED_EXTENSIONS)

\* C7: for a decoded bitmap of width w and height h the Normalizer hands on
\* (w, h) unchanged when w <= max_image_width and exactly (max_image_width,
\* floor(h * max_image_width / w)) when w > max_image_width; the width never
\* exceeds max_image_width afterwards and a bitmap is always returned.
C7_NormalizedDimensions ==
    \A r \in Requests :
        (NormalizerRan(r) /\ ~req[r].passed.truncated) =>
            LET w == req[r].passed.width
                h == req[r].passed.height
            IN  /\ req[r].bitmap.exists
                /\ req[r].bitmap.width <= settings.MAX_IMAGE_WIDTH
                /\ w <= settings.MAX_IMAGE_WIDTH
                     => req[r].bitmap.width = w /\ req[r].bitmap.height = h
                /\ w > settings.MAX_IMAGE_WIDTH
                     => /\ req[r].bitmap.width = settings.MAX_IMAGE_WIDTH
                        /\ req[r].bitmap.height = (h * settings.MAX_IMAGE_WIDTH) \div w

\* C8: the outcome of a request depends only on its own bytes and filename
\* and on the read-only Settings: a step of a handler changes the state of
\* its own request alone and never the Settings, and requests with the same
\* upload, served the same collaborator results, end with the same response
\* whatever else ran or failed meanwhile.
C8_OneRequestPerStep ==
    /\ settings' = settings
    /\ library' = library
    /\ \A r, q \in Requests : (req'[r] # req[r] /\ q # r) => req'[q] = req[q]
    /\ \A r \in Requests : req'[r].upload = req[r].upload

C8_SameUploadSameOutcome ==
    \A r, q \in Requests :
        (Terminal(r) /\ Terminal(q) /\ req[r].upload = req[q].upload
            /\ req[r].collab = req[q].collab)
            => /\ req[r].pc = req[q].pc
               /\ req[r].response = req[q].response

C8_Isolation == [][C8_OneRequestPerStep]_vars /\ []C8_SameUploadSameOutcome

C8_Witness ==
    \E r, q \in Requests :
        /\ r # q
        /\ req[r].pc = "Error" /\ req[r].response.status = 500
        /\ req[q].pc = "Responded" /\ req[q].response.status = 200
        /\ req[q].upload = req[r].upload

\* C9: the stages of a request are a prefix of Received, Validated,
\* Normalized, Segmented, Encoded, Responded, optionally cut short by one
\* transition to Error: none is skipped, repeated or retried, HTTP 200 comes
\* only from Encoded, Responded and Error are terminal, and every request
\* reaches one of them.
NextStage(stage) ==
    CASE stage = "Received"   -> "Validated"
      [] stage = "Validated"  -> "Normalized"
      [] stage = "Normalized" -> "Segmented"
      [] stage = "Segmented"  -> "Encoded"
      [] stage = "Encoded"    -> "Responded"
      [] OTHER -> "none"

C9_StageStep ==
    \A r \in Requests :
        req'[r] # req[r] =>
            /\ ~Terminal(r)
            /\ req'[r].pc \in {NextStage(req[r].pc), "Error"}
            /\ req'[r].trace = Append(req[r].trace, req'[r].pc)
            /\ req'[r].response.status = 200 => req[r].pc = "Encoded"

C9_StagePrefix ==
    \A r \in Requests :
        /\ req[r].trace[Len(req[r].trace)] = req[r].pc
        /\ \/ IsPrefix(req[r].trace, Stages)
           \/ /\ req[r].pc = "Error"
              /\ IsPrefix(SubSeq(req[r].trace, 1, Len(req[r].trace) - 1), Stages)
              /\ Len(req[r].trace) <= Len(Stages)
        /\ req[r].response.status = 200 <=> req[r].pc = "Responded"
        /\ req[r].response # NoResponse <=> Terminal(r)

C9_StageOrder ==
    /\ [][C9_StageStep]_vars
    /\ []C9_StagePrefix
    /\ \A r \in 1..NumRequests : <>[](Terminal(r))

C9_Witness ==
    \E r, q \in Requests :
        /\ req[r].trace = Stages /\ req[r].response.status = 200
        /\ req[q].trace = <<"Received", "Validated", "Normalized", "Error">>

\* C10 as claimed: for a filename with no '.', the extension the Validator
\* extracts is the empty string, and the extension check then fails with an
\* Invalid result returned as a value.
C10_EmptyExtension ==
    \A r \in Requests :
        (ValidatorRan(r) /\ ~HasDot(req[r].upload.filename)
            /\ req[r].upload.image_bytes.size <= settings.MAX_FILE_SIZE_BYTES)
            => /\ req[r].validation.file_extension = <<>>
               /\ ~req[r].validation.is_valid
               /\ req[r].validation.error_message.kind = "extension"

\* C10 amended: for a filename with no '.', the extension the Validator
\* extracts is the last character of the lower-cased filename (the empty
\* string only for the empty filename); when the size check passes, the
\* extension check then fails with an Invalid result returned as a value,
\* answered with HTTP 400: validate_image never raises on a missing separator.
LastCharLowered(filename) ==
    IF filename = <<>> THEN <<>>
    ELSE <<lower(filename)[Len(lower(filename))]>>

C10_LastCharExtension ==
    \A r \in Requests :
        (ValidatorRan(r) /\ ~HasDot(req[r].upload.filename)
            /\ req[r].upload.image_bytes.size <= settings.MAX_FILE_SIZE_BYTES)
            => /\ req[r].validation.file_extension = LastCharLowered(req[r].upload.filename)
               /\ req[r].validation.checks = <<"size", "extension">>
               /\ ~req[r].validation.is_valid
               /\ req[r].validation.error_message.kind = "extension"
               /\ req[r].pc = "Error"
               /\ req[r].response.status = 400

C10_Witness ==
    \E r \in Requests :
        /\ ValidatorRan(r)
        /\ req[r].upload.filename = <<"a", "U+0130">>
        /\ req[r].validation.file_extension = <<"U+0307">>
        /\ req[r].response.status = 400

====
